---- MODULE Spec2Model ----
(***************************************************************************)
(* A model of chatgptmanager.Chat (src/src/chatgptmanager/chatgpt.py): the *)
(* conversation transcript, the response cache and its shards on disk, the *)
(* running fee and the interactive flag, with one action per way a method  *)
(* of Chat can end.  The provider (openai) and the wall clock are the      *)
(* environment: their answers are drawn from small sets.                   *)
(*                                                                         *)
(* Prices are integers, in units of 1e-7 dollar (the smallest price of the *)
(* pricing table), so that calculate_price is exact.                       *)
(***************************************************************************)
EXTENDS Integers, Sequences, FiniteSets, TLC

VARIABLES
    model_name,     \* self.model_name
    interactive,    \* self.interactive
    auto_saveload,  \* self.auto_saveload
    chat_history,   \* self.chat_history: a sequence of [role, content]
    cache,          \* self.cache: a function on a set of <<model, message>>
    fee,            \* self.fee
    savedir,        \* the *.pkl files of self.savedir: name -> pickled dict,
                    \* a function on the names of the files that exist
    answered,       \* history variable: what this object's own billed
                    \* single-turn zero-temperature calls returned since the
                    \* last load, <<model, message>> -> response
    paid,           \* history variable: the sum of the prices that completed
                    \* __call__ and embedding invocations returned
    last            \* the last operation: its arguments and what it returned

vars == <<model_name, interactive, auto_saveload, chat_history, cache, fee,
          savedir, answered, paid, last>>

-----------------------------------------------------------------------------
(* Bounds of the model *)

\* turns the transcript may hold
MaxTurns == 2
\* a request that costs something is made only while fee < MaxFee
MaxFee == 1

-----------------------------------------------------------------------------
(* Inputs *)

SummaryRequest == "summarize the conversation so far"
Messages == {"hello"}
Responses == {"r1", "r2"}
\* 0 and one non-zero temperature
Temperatures == {0, 1}
\* the default model and one that is not in the pricing table
ModelNames == {"gpt-3.5-turbo", "gpt-4o"}
embedding_model_name == "text-embedding-ada-002"
\* completion["usage"]: <<prompt_tokens, completion_tokens>>
Usages == {<<0, 0>>, <<2, 1>>}
\* res["usage"]["total_tokens"] of an embedding request
TotalTokens == {0, 1}
\* pd.Timestamp('now') to the second, as save() names a shard
Timestamps == {"20230801120000"}

\* self.pricing_data, in units of 1e-7 dollar per token
pricing_data ==
    [m \in {"gpt-3.5-turbo", "gpt-4", "text-embedding-ada-002"} |->
        CASE m = "gpt-3.5-turbo" -> [input |-> 15, output |-> 20]
          [] m = "gpt-4" -> [input |-> 300, output |-> 600]
          [] m = "text-embedding-ada-002" -> [input |-> 1]]

-----------------------------------------------------------------------------
(* Pure helpers *)

EmptyDict == <<>>

user(message) == [role |-> "user", content |-> message]
assistant(res) == [role |-> "assistant", content |-> res]

\* (mutant) a = b where the code has a |= b
dict_assign(a, b) == b

\* a |= b on dicts: the keys of both, b's value where both have the key
dict_update(a, b) ==
    [k \in (DOMAIN a) \cup (DOMAIN b) |-> IF k \in DOMAIN b THEN b[k] ELSE a[k]]

\* d[key] = value on a dict
dict_set(d, key, value) ==
    [k \in (DOMAIN d) \cup {key} |-> IF k = key THEN value ELSE d[k]]

\* (mutant) h[2:] where the code has h[-2:]
drop_two(h) == IF Len(h) <= 2 THEN <<>> ELSE SubSeq(h, 3, Len(h))

\* (mutant) h[-1:] where the code has h[-2:]
last_one(h) == IF Len(h) <= 1 THEN h ELSE SubSeq(h, Len(h), Len(h))

\* h[-2:] on a list
last_two(h) == IF Len(h) <= 2 THEN h ELSE SubSeq(h, Len(h) - 1, Len(h))

\* calculate_price: defined only for a model of the pricing table
calculate_price(input_tokens, output_tokens) ==
    pricing_data[model_name].input * input_tokens
        + pricing_data[model_name].output * output_tokens

\* the *.pkl files of the save directory
Files(dir) == DOMAIN dir

\* the orders in which glob('*.pkl') may list the files
GlobOrders(dir) ==
    {o \in [1..Cardinality(Files(dir)) -> Files(dir)] :
        \A i, j \in DOMAIN o : o[i] = o[j] => i = j}

\* load() with no path: load(path) for each file in glob order
RECURSIVE load_all(_, _, _)
load_all(c, dir, order) ==
    IF order = <<>> THEN c
    ELSE load_all(dict_update(c, dir[Head(order)]), dir, Tail(order))

-----------------------------------------------------------------------------
(* What the last operation was given and what came of it.  outcome is      *)
(* "cache" (returned from the cache), "provider" (returned, answered and   *)
(* billed by the provider), "provider_error" (the provider's call raised), *)
(* "price_error" (the provider answered, calculate_price raised KeyError), *)
(* "returned" (any other normal return).  sent is the number of messages   *)
(* given to the provider, 0 when it was not contacted.                     *)

Observation(op, outcome, message, temperature, ti, res, price, sent) ==
    [op |-> op, outcome |-> outcome, message |-> message,
     temperature |-> temperature, temporary_interactive |-> ti,
     res |-> res, price |-> price, sent |-> sent]

Plain(op, outcome) == Observation(op, outcome, "", 0, FALSE, "", 0, 0)

-----------------------------------------------------------------------------
(* __call__, as far as the request to the provider *)

\* lines 175-177: self.interactive after the temporary_interactive block
interactive_in_call(ti) == IF ti THEN TRUE ELSE interactive

\* (mutant) the transcript is not cleared when the wrapper is not interactive
history_kept(ti) == chat_history

\* lines 179-181: self.chat_history at the cache lookup
history_at_lookup(ti) == IF ~interactive_in_call(ti) THEN <<>> ELSE chat_history

\* (mutant) the lookup key is the message alone, the written key holds the
\* model name too
cache_hit_unkeyed(message, temperature, ti) ==
    /\ history_at_lookup(ti) = <<>>
    /\ temperature = 0
    /\ <<message>> \in DOMAIN cache

\* (mutant) the lookup tests the transcript before lines 179-181 clear it
cache_hit_before_clear(message, temperature, ti) ==
    /\ chat_history = <<>>
    /\ temperature = 0
    /\ <<model_name, message>> \in DOMAIN cache

\* lines 183-186: the call is answered from the cache
cache_hit(message, temperature, ti) ==
    /\ history_at_lookup(ti) = <<>>
    /\ temperature = 0
    /\ <<model_name, message>> \in DOMAIN cache

\* line 198: the messages given to the provider
messages_sent(message, ti) == Append(history_at_lookup(ti), user(message))

\* (mutant) line 204 is missing: the reply is appended without the message
history_after_reply(message, ti, res) ==
    Append(history_at_lookup(ti), assistant(res))

\* lines 204-205: the transcript once both halves of the turn are appended
history_after_turn(message, ti, res) ==
    Append(Append(history_at_lookup(ti), user(message)), assistant(res))

\* (mutant) the entry is written whatever the temperature
cache_after_turn_any_temperature(message, temperature, ti, res) ==
    IF Len(history_after_turn(message, ti, res)) = 2
    THEN dict_set(cache, <<model_name, message>>, res)
    ELSE cache

\* (mutant) the entry is written under the message alone, the lookup key
\* holds the model name too
cache_after_turn_unkeyed(message, temperature, ti, res) ==
    IF Len(history_after_turn(message, ti, res)) = 2 /\ temperature = 0
    THEN dict_set(cache, <<message>>, res)
    ELSE cache

\* lines 207-210: the cache after the turn is appended
cache_after_turn(message, temperature, ti, res) ==
    IF Len(history_after_turn(message, ti, res)) = 2 /\ temperature = 0
    THEN dict_set(cache, <<model_name, message>>, res)
    ELSE cache

\* line 152, applied only when summarize_and_clear_history's call returned
truncate(op, h) == IF op = "summarize_and_clear_history" THEN last_two(h) ELSE h

\* (mutant) the shard is pickled from the cache as it was when the call began
save_before_write(dir, c, now) == dict_set(dir, now, cache)

\* save(): one shard named by the clock, holding the whole cache
save(dir, c, now) == dict_set(dir, now, c)

-----------------------------------------------------------------------------
(* The four ways __call__ ends; op tells a direct call from the one made   *)
(* by summarize_and_clear_history                                          *)

\* lines 186-191: returned from the cache; interactive is not restored
ReturnFromCache(op, message, temperature, ti) ==
    /\ cache_hit(message, temperature, ti)
    /\ chat_history' = truncate(op, history_after_turn(message, ti,
                                      cache[<<model_name, message>>]))
    /\ interactive' = interactive_in_call(ti)
    /\ last' = Observation(op, "cache", message, temperature, ti,
                           cache[<<model_name, message>>], 0, 0)
    /\ paid' = paid + last'.price
    /\ UNCHANGED <<model_name, auto_saveload, cache, fee, savedir, answered>>

\* lines 193-225: answered by the provider, priced, saved and returned
ReturnFromProvider(op, message, temperature, ti, res, usage, now) ==
    /\ ~cache_hit(message, temperature, ti)
    /\ model_name \in DOMAIN pricing_data
    /\ fee < MaxFee \/ calculate_price(usage[1], usage[2]) = 0
    /\ Len(truncate(op, history_after_turn(message, ti, res))) <= 2 * MaxTurns
    /\ chat_history' = truncate(op, history_after_turn(message, ti, res))
    /\ cache' = cache_after_turn(message, temperature, ti, res)
    /\ fee' = fee + calculate_price(usage[1], usage[2])
    /\ interactive' = IF ti THEN interactive ELSE interactive_in_call(ti)
    /\ savedir' = IF auto_saveload THEN save(savedir, cache', now)
                  ELSE savedir
    /\ answered' = IF temperature = 0 /\ Len(messages_sent(message, ti)) = 1
                   THEN dict_set(answered, <<model_name, message>>, res)
                   ELSE answered
    /\ last' = Observation(op, "provider", message, temperature, ti, res,
                           calculate_price(usage[1], usage[2]),
                           Len(messages_sent(message, ti)))
    /\ paid' = paid + last'.price
    /\ UNCHANGED <<model_name, auto_saveload>>

\* (mutant) the user message is appended before the request is sent
RaiseAfterAppend(op, message, temperature, ti) ==
    /\ ~cache_hit(message, temperature, ti)
    /\ chat_history' = messages_sent(message, ti)
    /\ interactive' = interactive_in_call(ti)
    /\ last' = Observation(op, "provider_error", message, temperature, ti,
                           "", 0, Len(messages_sent(message, ti)))
    /\ UNCHANGED <<model_name, auto_saveload, cache, fee, savedir, answered,
                   paid>>

\* line 196 raises: nothing of the turn is kept, interactive is not restored
RaiseFromProvider(op, message, temperature, ti) ==
    /\ ~cache_hit(message, temperature, ti)
    /\ chat_history' = history_at_lookup(ti)
    /\ interactive' = interactive_in_call(ti)
    /\ last' = Observation(op, "provider_error", message, temperature, ti,
                           "", 0, Len(messages_sent(message, ti)))
    /\ UNCHANGED <<model_name, auto_saveload, cache, fee, savedir, answered,
                   paid>>

\* line 213 raises KeyError: the model is not in the pricing table; the turn
\* and the cache entry are already written, fee, interactive and the shards
\* are not reached
RaiseFromPrice(op, message, temperature, ti, res) ==
    /\ ~cache_hit(message, temperature, ti)
    /\ model_name \notin DOMAIN pricing_data
    /\ Len(history_after_turn(message, ti, res)) <= 2 * MaxTurns
    /\ chat_history' = history_after_turn(message, ti, res)
    /\ cache' = cache_after_turn(message, temperature, ti, res)
    /\ interactive' = interactive_in_call(ti)
    /\ last' = Observation(op, "price_error", message, temperature, ti,
                           res, 0, Len(messages_sent(message, ti)))
    /\ UNCHANGED <<model_name, auto_saveload, fee, savedir, answered, paid>>

-----------------------------------------------------------------------------
(* The operations of Chat *)

CallCached ==
    \E message \in Messages, temperature \in Temperatures, ti \in BOOLEAN :
        ReturnFromCache("__call__", message, temperature, ti)

CallAnswered ==
    \E message \in Messages, temperature \in Temperatures, ti \in BOOLEAN,
       res \in Responses, usage \in Usages, now \in Timestamps :
        ReturnFromProvider("__call__", message, temperature, ti, res,
                           usage, now)

CallFailed ==
    \E message \in Messages, temperature \in Temperatures, ti \in BOOLEAN :
        RaiseFromProvider("__call__", message, temperature, ti)

CallUnpriced ==
    \E message \in Messages, temperature \in Temperatures, ti \in BOOLEAN,
       res \in Responses :
        RaiseFromPrice("__call__", message, temperature, ti, res)

\* summarize_and_clear_history: self(SummaryRequest), then the last two
\* entries are kept; when the call raises, line 152 is not reached
SummarizeCached ==
    ReturnFromCache("summarize_and_clear_history", SummaryRequest, 0, FALSE)

SummarizeAnswered ==
    \E res \in Responses, usage \in Usages, now \in Timestamps :
        ReturnFromProvider("summarize_and_clear_history", SummaryRequest, 0,
                           FALSE, res, usage, now)

SummarizeFailed ==
    RaiseFromProvider("summarize_and_clear_history", SummaryRequest, 0, FALSE)

SummarizeUnpriced ==
    \E res \in Responses :
        RaiseFromPrice("summarize_and_clear_history", SummaryRequest, 0,
                       FALSE, res)

\* (mutant) reset() starts the fee over too
ResetWithFee ==
    /\ chat_history' = <<>>
    /\ fee' = 0
    /\ last' = Plain("reset", "returned")
    /\ UNCHANGED <<model_name, interactive, auto_saveload, cache, savedir,
                   answered, paid>>

Reset ==
    /\ chat_history' = <<>>
    /\ last' = Plain("reset", "returned")
    /\ UNCHANGED <<model_name, interactive, auto_saveload, cache, fee,
                   savedir, answered, paid>>

Save ==
    \E now \in Timestamps :
        /\ savedir' = save(savedir, cache, now)
        /\ last' = Plain("save", "returned")
        /\ UNCHANGED <<model_name, interactive, auto_saveload, chat_history,
                       cache, fee, answered, paid>>

\* load() with no path
Load ==
    \E order \in GlobOrders(savedir) :
        /\ cache' = load_all(cache, savedir, order)
        /\ answered' = EmptyDict
        /\ last' = Plain("load", "returned")
        /\ UNCHANGED <<model_name, interactive, auto_saveload, chat_history,
                       fee, savedir, paid>>

\* (mutant) line 255 is missing: the price is returned and not added to fee
EmbeddingUnbilled ==
    \E total_tokens \in TotalTokens :
        /\ last' = Observation("embedding", "provider", "", 0, FALSE, "",
                       total_tokens * pricing_data[embedding_model_name].input,
                       1)
        /\ paid' = paid + last'.price
        /\ UNCHANGED <<model_name, interactive, auto_saveload, chat_history,
                       cache, fee, savedir, answered>>

Embedding ==
    \E total_tokens \in TotalTokens :
        /\ fee < MaxFee \/ total_tokens = 0
        /\ fee' = fee + total_tokens * pricing_data[embedding_model_name].input
        /\ last' = Observation("embedding", "provider", "", 0, FALSE, "",
                       total_tokens * pricing_data[embedding_model_name].input,
                       1)
        /\ paid' = paid + last'.price
        /\ UNCHANGED <<model_name, interactive, auto_saveload, chat_history,
                       cache, savedir, answered>>

EmbeddingFailed ==
    /\ last' = Plain("embedding", "provider_error")
    /\ UNCHANGED <<model_name, interactive, auto_saveload, chat_history,
                   cache, fee, savedir, answered, paid>>

-----------------------------------------------------------------------------
(* Shards left in the save directory by earlier sessions *)

OldShards ==
    ("20230731090000" :> (<<"gpt-3.5-turbo", "hello">> :> "r1"))
    @@ ("20230731100000" :> ((<<"gpt-3.5-turbo", "hello">> :> "r2")
                              @@ (<<"gpt-4", "hello">> :> "r1")))

\* __init__: the state after construction, the shards loaded when
\* auto_saveload is set
Init ==
    /\ model_name \in ModelNames
    /\ interactive \in BOOLEAN
    /\ auto_saveload \in BOOLEAN
    /\ savedir = OldShards
    /\ chat_history = <<>>
    /\ fee = 0
    /\ cache \in IF auto_saveload
                 THEN {load_all(EmptyDict, savedir, o) : o \in GlobOrders(savedir)}
                 ELSE {EmptyDict}
    /\ answered = EmptyDict
    /\ paid = 0
    /\ last = Plain("__init__", "returned")

Next ==
    \/ CallCached
    \/ CallAnswered
    \/ CallFailed
    \/ CallUnpriced
    \/ SummarizeCached
    \/ SummarizeAnswered
    \/ SummarizeFailed
    \/ SummarizeUnpriced
    \/ Reset
    \/ Save
    \/ Load
    \/ Embedding
    \/ EmbeddingFailed

Spec == Init /\ [][Next]_vars

-----------------------------------------------------------------------------
(* Vocabulary of the properties.  A step is described by the state before  *)
(* it (unprimed) and by what the operation was given and returned (last'). *)

CallOps == {"__call__", "summarize_and_clear_history"}

\* the operation returned normally
Returned(l) == l.outcome \in {"cache", "provider", "returned"}

\* the transcript __call__ looks at when it consults the cache
TranscriptAtLookup(ti) == IF interactive \/ ti THEN chat_history ELSE <<>>

IsPrefix(a, b) == Len(a) <= Len(b) /\ SubSeq(b, 1, Len(a)) = a

Keys(dir) == UNION {DOMAIN dir[f] : f \in DOMAIN dir}
Holders(dir, k) == {f \in DOMAIN dir : k \in DOMAIN dir[f]}

-----------------------------------------------------------------------------
(* C1: a call with temperature 0 whose transcript is empty at the lookup   *)
(* and whose key (model_name, message) is in the cache returns exactly the *)
(* cached text with price 0, gives the provider nothing, and leaves fee    *)
(* and cache as they were.                                                 *)
CacheHitReturnsCachedText ==
    [][ ( /\ last'.op \in CallOps
          /\ last'.temperature = 0
          /\ TranscriptAtLookup(last'.temporary_interactive) = <<>>
          /\ <<model_name, last'.message>> \in DOMAIN cache )
        => ( /\ last'.outcome = "cache"
             /\ last'.res = cache[<<model_name, last'.message>>]
             /\ last'.price = 0
             /\ last'.sent = 0
             /\ fee' = fee
             /\ cache' = cache ) ]_vars

\* a cache hit after money was spent, on a transcript that a non-interactive
\* wrapper had to clear first
CacheHitWitness ==
    /\ last.op = "__call__"
    /\ last.outcome = "cache"
    /\ ~last.temporary_interactive
    /\ ~interactive
    /\ fee > 0

(* C2: a call changes the cache only by writing (model_name, message) ->   *)
(* response, and only when temperature is 0 and the provider was given the *)
(* current message alone; a call with another temperature or with earlier  *)
(* turns leaves the cache as it was.                                       *)
CacheWrittenOnlySingleTurnZeroTemperature ==
    [][ (last'.op \in CallOps /\ cache' # cache)
        => ( /\ last'.temperature = 0
             /\ last'.sent = 1
             /\ DOMAIN cache' = DOMAIN cache \cup {<<model_name, last'.message>>}
             /\ cache'[<<model_name, last'.message>>] = last'.res
             /\ \A k \in DOMAIN cache :
                    k # <<model_name, last'.message>> => cache'[k] = cache[k] ) ]_vars

\* a billed single-turn call at a non-zero temperature, whose answer is not
\* the cached one
CacheNotWrittenWitness ==
    /\ last.op = "__call__"
    /\ last.outcome = "provider"
    /\ last.temperature # 0
    /\ last.sent = 1
    /\ <<model_name, last.message>> \in DOMAIN cache
    /\ cache[<<model_name, last.message>>] # last.res

(* C3: the two halves of a turn are appended together, after the provider  *)
(* answered: a call answered by the provider ends with the transcript it   *)
(* sent followed by the assistant's reply, and a call the provider failed  *)
(* leaves no part of the turn (the transcript is as before, or emptied by  *)
(* the non-interactive clearing).                                          *)
AtomicTurnUpdate ==
    [][ last'.op \in CallOps
        => /\ last'.outcome = "provider_error"
                => chat_history' \in {chat_history, <<>>}
           /\ (last'.outcome = "provider" /\ last'.op = "__call__")
                => chat_history' =
                     TranscriptAtLookup(last'.temporary_interactive)
                       \o <<user(last'.message), assistant(last'.res)>> ]_vars

\* the provider failed a call that carried earlier turns
FailedTurnWitness ==
    /\ last.op = "__call__"
    /\ last.outcome = "provider_error"
    /\ last.sent = 3
    /\ Len(chat_history) = 2

(* C4, as stated: every operation leaves the transcript unchanged, extends *)
(* it at the end, or empties it, and it is emptied only by reset() or by a *)
(* call made while the wrapper is not interactive (which may then append   *)
(* its own turn).                                                          *)
TranscriptAppendOnly ==
    [][ \/ IsPrefix(chat_history, chat_history')
        \/ (last'.op = "reset" /\ chat_history' = <<>>)
        \/ ( /\ last'.op \in CallOps
             /\ ~(interactive \/ last'.temporary_interactive)
             /\ chat_history' \in
                  {<<>>, <<user(last'.message), assistant(last'.res)>>} ) ]_vars

(* C4, amended: the same, and summarize_and_clear_history, when it         *)
(* returns, replaces the whole transcript by the summarization turn.       *)
TranscriptAppendOnlyOrSummarized ==
    [][ \/ IsPrefix(chat_history, chat_history')
        \/ (last'.op = "reset" /\ chat_history' = <<>>)
        \/ ( /\ last'.op \in CallOps
             /\ ~(interactive \/ last'.temporary_interactive)
             /\ chat_history' \in
                  {<<>>, <<user(last'.message), assistant(last'.res)>>} )
        \/ ( /\ last'.op = "summarize_and_clear_history"
             /\ Returned(last')
             /\ chat_history' =
                  <<user(SummaryRequest), assistant(last'.res)>> ) ]_vars

\* an interactive wrapper summarized a transcript of one earlier turn
SummarizedWitness ==
    /\ last.op = "summarize_and_clear_history"
    /\ last.outcome = "provider"
    /\ last.sent = 3
    /\ Len(chat_history) = 2

(* C5: after a call with temporary_interactive=True has returned, from the *)
(* provider or from the cache, interactive is what it was before the call. *)
TemporaryInteractiveRestored ==
    [][ ( /\ last'.op = "__call__"
          /\ last'.temporary_interactive
          /\ Returned(last') )
        => interactive' = interactive ]_vars

(* C6: fee never decreases, and it changes only in a __call__ or an        *)
(* embedding request that the provider answered and billed.                *)
FeeNeverDecreases ==
    [][ /\ fee' >= fee
        /\ fee' # fee => ( /\ last'.outcome = "provider"
                           /\ last'.op \in CallOps \cup {"embedding"}
                           /\ fee' = fee + last'.price ) ]_vars

\* a billed summarization: the fee is what it cost
FeeBilledWitness ==
    /\ last.op = "summarize_and_clear_history"
    /\ last.outcome = "provider"
    /\ last.price > 0
    /\ fee >= last.price

(* C7: load() with no path leaves in the cache exactly the keys it held    *)
(* and the keys of every shard of the save directory; a key held by memory *)
(* alone keeps its value and a key held by a single shard alone gets that  *)
(* shard's value.                                                          *)
LoadMergesShards ==
    [][ last'.op = "load"
        => /\ DOMAIN cache' = DOMAIN cache \cup Keys(savedir)
           /\ \A k \in DOMAIN cache :
                  Holders(savedir, k) = {} => cache'[k] = cache[k]
           /\ \A k \in Keys(savedir) \ DOMAIN cache :
                  \A f \in Holders(savedir, k) :
                      Holders(savedir, k) = {f} => cache'[k] = savedir[f][k] ]_vars

\* a load of three shards into a cache that holds a key no shard has
LoadWitness ==
    /\ last.op = "load"
    /\ Cardinality(DOMAIN savedir) = 3
    /\ \E k \in DOMAIN cache : Holders(savedir, k) = {}

(* C8: a call on a wrapper that is not interactive, made without           *)
(* temporary_interactive, gives the provider the current message alone,    *)
(* and once it has returned the transcript is exactly that one turn.       *)
NonInteractiveKeepsNoHistory ==
    [][ ( /\ last'.op \in CallOps
          /\ ~interactive
          /\ ~last'.temporary_interactive )
        => /\ last'.sent <= 1
           /\ Returned(last')
                => chat_history' =
                     <<user(last'.message), assistant(last'.res)>> ]_vars

\* a second billed call on a non-interactive wrapper: the turn of the first
\* was dropped
NonInteractiveWitness ==
    /\ last.op = "__call__"
    /\ last.outcome = "provider"
    /\ ~last.temporary_interactive
    /\ ~interactive
    /\ last.temperature # 0
    /\ <<model_name, last.message>> \in DOMAIN answered

(* C9: once a call with temperature 0 and an empty transcript was answered *)
(* by the provider for message m under model name n with response r, every *)
(* later call with temperature 0, an empty transcript at the lookup, model *)
(* name n and message m, with no load() in between, returns r with price 0 *)
(* and gives the provider nothing.                                         *)
SameQuestionSameAnswer ==
    [][ ( /\ last'.op \in CallOps
          /\ last'.temperature = 0
          /\ TranscriptAtLookup(last'.temporary_interactive) = <<>>
          /\ <<model_name, last'.message>> \in DOMAIN answered )
        => ( /\ last'.outcome = "cache"
             /\ last'.res = answered[<<model_name, last'.message>>]
             /\ last'.price = 0
             /\ last'.sent = 0 ) ]_vars

\* the question was asked again and answered from the cache
SameAnswerWitness ==
    /\ last.op = "__call__"
    /\ last.outcome = "cache"
    /\ <<model_name, last.message>> \in DOMAIN answered
    /\ last.res = answered[<<model_name, last.message>>]

(* C10, as stated: when summarize_and_clear_history returns, the           *)
(* transcript is exactly the summarization request and the reply to it;    *)
(* when its call fails, nothing is removed from the transcript.            *)
SummarizeLeavesOneTurn ==
    [][ last'.op = "summarize_and_clear_history"
        => /\ Returned(last')
                => chat_history' =
                     <<user(SummaryRequest), assistant(last'.res)>>
           /\ ~Returned(last') => IsPrefix(chat_history, chat_history') ]_vars

(* C10, amended: when it returns, the same; when its call fails, the       *)
(* transcript is what the failed call left: the earlier transcript if the  *)
(* wrapper is interactive and the empty one if it is not, followed by the  *)
(* summarization turn if the failure came after the provider's reply.      *)
SummarizeLeavesOneTurnOrWhatTheCallLeft ==
    [][ last'.op = "summarize_and_clear_history"
        => /\ Returned(last')
                => chat_history' =
                     <<user(SummaryRequest), assistant(last'.res)>>
           /\ last'.outcome = "provider_error"
                => chat_history' = (IF interactive THEN chat_history ELSE <<>>)
           /\ last'.outcome = "price_error"
                => chat_history' = (IF interactive THEN chat_history ELSE <<>>)
                     \o <<user(SummaryRequest), assistant(last'.res)>> ]_vars

\* a transcript of two earlier turns was summarized
SummarizeManyTurnsWitness ==
    /\ last.op = "summarize_and_clear_history"
    /\ last.outcome = "provider"
    /\ last.sent = 5
    /\ chat_history = <<user(SummaryRequest), assistant(last.res)>>

(* C11: with auto_saveload set, a call answered by the provider returns    *)
(* with one shard written that holds the whole cache as the call leaves    *)
(* it, every other file untouched; a call that fails at the provider, or   *)
(* is answered from the cache, leaves the save directory as it was.        *)
AutoSavePersistsCache ==
    [][ (auto_saveload /\ last'.op \in CallOps)
        => /\ last'.outcome = "provider"
                => \E f \in DOMAIN savedir' :
                      /\ savedir'[f] = cache'
                      /\ DOMAIN savedir' = DOMAIN savedir \cup {f}
                      /\ \A g \in DOMAIN savedir : g # f => savedir'[g] = savedir[g]
           /\ last'.outcome \in {"cache", "provider_error"}
                => savedir' = savedir ]_vars

\* a billed call created a cache entry and the shard it wrote holds it
AutoSaveWitness ==
    /\ auto_saveload
    /\ last.op \in CallOps
    /\ last.outcome = "provider"
    /\ last.temperature = 0
    /\ last.sent = 1
    /\ <<model_name, last.message>> \in DOMAIN cache
    /\ cache[<<model_name, last.message>>] = last.res
    /\ \E f \in DOMAIN savedir : savedir[f] = cache

(* C12: in every reachable state the transcript has even length and its    *)
(* entries alternate user, assistant, starting with user.                  *)
TranscriptWellFormed ==
    /\ Len(chat_history) % 2 = 0
    /\ \A i \in DOMAIN chat_history :
          chat_history[i].role = (IF i % 2 = 1 THEN "user" ELSE "assistant")

\* a failed summarization left a transcript of two turns as it was
WellFormedWitness ==
    /\ last.op = "summarize_and_clear_history"
    /\ last.outcome = "provider_error"
    /\ Len(chat_history) = 4

CacheEntriesWriteOnce ==
    [][ last'.op # "load"
        => \A k \in DOMAIN cache :
              k \in DOMAIN cache' /\ cache'[k] = cache[k] ]_vars

\* a summarization wrote its entry into a cache that held two others
WriteOnceWitness ==
    /\ last.op = "summarize_and_clear_history"
    /\ last.outcome = "provider"
    /\ last.sent = 1
    /\ cache[<<model_name, SummaryRequest>>] = last.res
    /\ Cardinality(DOMAIN cache) >= 3

====
